---- MODULE Spec2Model ----
(***************************************************************************)
(* Model of the App component of frontend/src/App.js (zenith): the five    *)
(* useState cells, the geolocation mount effect, the two effects keyed on  *)
(* userLocation, fetchPasses, fetchSatelliteLocation, the 5 second         *)
(* interval and the Refresh Passes button.                                 *)
(*                                                                         *)
(* A state setter call is modelled as the assignment the code writes.      *)
(* The code guards no setter with a mounted/liveness test, so a response   *)
(* handled after unmount performs the same assignments as before it.       *)
(* A re-render and the effects it schedules are part of the step that      *)
(* called the setter.                                                      *)
(***************************************************************************)
EXTENDS Integers, Sequences, FiniteSets, TLC

VARIABLES
    userLocation,       \* useState(null), App.js:12
    satelliteLocation,  \* useState(null), App.js:13
    passes,             \* useState([]),   App.js:14
    loading,            \* useState(true), App.js:15
    error,              \* useState(null), App.js:16
    mounted,            \* the component is mounted
    geo,                \* "idle" | "pending" | "done": getCurrentPosition
    interval,           \* "none" | "active" | "cleared": the setInterval timer
    timersCreated,      \* number of setInterval calls so far
    timersCleared,      \* number of clearInterval calls on a live timer so far
    passInFlight,       \* pass requests awaiting their response
    passIssued,         \* number of pass requests issued so far
    refreshCount,       \* number of Refresh Passes clicks so far
    pollInFlight,       \* position requests (tick numbers) awaiting a response
    tickCount,          \* number of position requests issued so far
    pollResult,         \* history: tick number -> "none"|"pending"|"ok"|"fail"
    lastEvent,          \* history: name of the step taken last
    lastData            \* history: what the last step received / saw before

vars == <<userLocation, satelliteLocation, passes, loading, error, mounted,
          geo, interval, timersCreated, timersCleared, passInFlight,
          passIssued, refreshCount, pollInFlight, tickCount, pollResult,
          lastEvent, lastData>>

----------------------------------------------------------------------------
(* Bounds of the model *)

MaxTicks == 3

MaxRefresh == 2

MaxPassLen == 2

MaxDay == 1

----------------------------------------------------------------------------
(* Values *)

\* JavaScript null
Null == [null |-> TRUE]

\* Coordinates are kept in units of 1e-4 degree.
FallbackLat == 407128

FallbackLng == -740060

FallbackLocationMut == [lat |-> FallbackLng, lng |-> FallbackLat]

\* { lat: 40.7128, lng: -74.006 }
FallbackLocation == [lat |-> FallbackLat, lng |-> FallbackLng]

\* position.coords values the platform may report
ReportedCoords == { [latitude |-> 515074, longitude |-> -1278],
                    [latitude |-> -338688, longitude |-> 1512093] }

ErrGeo == [message |-> "Failed to get your location. Please enable location access."]

ErrUnsupported == [message |-> "Geolocation is not supported by your browser"]

ErrPasses == [message |-> "Failed to fetch satellite passes. Please try again later."]

\* Poll period in milliseconds
PollPeriodMs == 5000

\* An ISO-8601 timestamp (UTC): day number since the epoch and time of day
Iso(d, h, mi, sec, ms) == [day |-> d, h |-> h, mi |-> mi, s |-> sec, ms |-> ms]

MsPerSecond == 1000

MsPerMinute == 60000

\* new Date(timeString) as a number: milliseconds since the epoch
ParseDate(t) ==
    (((t.day * 24 + t.h) * 60 + t.mi) * 60 + t.s) * MsPerSecond + t.ms

\* The ISO-8601 timestamp the backend writes for an instant in ms
FormatDate(n) ==
    Iso(n \div 86400000, (n \div 3600000) % 24, (n \div 60000) % 60,
        (n \div 1000) % 60, n % 1000)

\* Math.round(n / d) for d > 0: halves round towards plus infinity
MathRoundDiv(n, d) == (2 * n + d) \div (2 * d)

DurationFromMinuteFields(pass) == pass.end_time.mi - pass.start_time.mi

\* Math.round((new Date(pass.end_time) - new Date(pass.start_time)) / 60000)
DurationMinutes(pass) ==
    MathRoundDiv(ParseDate(pass.end_time) - ParseDate(pass.start_time),
                 MsPerMinute)

\* Pass objects the backend may return
PassSet == { [start_time |-> Iso(0, 0, 0, 0, 0), max_time |-> Iso(0, 0, 5, 0, 0),
              end_time |-> Iso(0, 0, 10, 0, 0), visibility_score |-> 80],
             [start_time |-> Iso(0, 1, 30, 0, 0), max_time |-> Iso(0, 1, 33, 0, 0),
              end_time |-> Iso(0, 1, 36, 0, 0), visibility_score |-> 30] }

\* Bodies GET /api/passes may return: any sequence, in any order
PassLists == UNION { [1..n -> PassSet] : n \in 0..MaxPassLen }

\* Body GET /api/location/ISS returns for the request of tick i
ServerPosition(i) == [lat |-> 10 * i, lon |-> 20 * i, alt |-> 400 + i,
                      name |-> "ISS", timestamp |-> PollPeriodMs * i]

\* The object handed to setSatelliteLocation for response body data
ToSatelliteLocation(data) ==
    [lat |-> data.lat, lng |-> data.lon, alt |-> data.alt,
     name |-> data.name, timestamp |-> data.timestamp]

\* The object handed to setUserLocation in the success callback
ToUserLocation(coords) == [lat |-> coords.latitude, lng |-> coords.longitude]

\* params of GET /api/passes built from the userLocation of the render
PassParams(loc) == [lat |-> loc.lat, lon |-> loc.lng]

\* The render guard: the loading screen replaces the whole page
LoadingScreen == loading \/ userLocation = Null

----------------------------------------------------------------------------
(* Initial state: the useState initial values, before any effect ran *)

InitLoadingMut == FALSE

InitLoading == TRUE

Init ==
    /\ userLocation = Null
    /\ satelliteLocation = Null
    /\ passes = <<>>
    /\ loading = InitLoading
    /\ error = Null
    /\ mounted = TRUE
    /\ geo = "idle"
    /\ interval = "none"
    /\ timersCreated = 0
    /\ timersCleared = 0
    /\ passInFlight = {}
    /\ passIssued = 0
    /\ refreshCount = 0
    /\ pollInFlight = {}
    /\ tickCount = 0
    /\ pollResult = [i \in 1..MaxTicks |-> "none"]
    /\ lastEvent = "init"
    /\ lastData = Null

----------------------------------------------------------------------------
(* fetchPasses and fetchSatelliteLocation up to their await *)

\* fetchPasses, lines 62-69: setLoading(true), then the request is sent with
\* the coordinate of the render.  passesAtIssue is a history field.
IssuePass(loc) ==
    /\ loading' = TRUE
    /\ passIssued' = passIssued + 1
    /\ passInFlight' = passInFlight \cup
          { [id |-> passIssued + 1, params |-> PassParams(loc),
             passesAtIssue |-> passes] }

\* fetchSatelliteLocation, lines 80-81: the request is sent
IssuePoll ==
    /\ tickCount' = tickCount + 1
    /\ pollInFlight' = pollInFlight \cup {tickCount + 1}
    /\ pollResult' = [pollResult EXCEPT ![tickCount + 1] = "pending"]

\* The two effects keyed on userLocation, run with userLocation = loc:
\* fetchPasses(); fetchSatelliteLocation(); setInterval(..., 5000)
\* A re-run of the poller effect first runs the cleanup of the previous
\* run (clearInterval of its intervalId), then creates the new interval.
LocationEffects(loc) ==
    /\ IssuePass(loc)
    /\ IssuePoll
    /\ interval' = "active"
    /\ timersCreated' = timersCreated + 1
    /\ timersCleared' = IF interval = "active" THEN timersCleared + 1
                                               ELSE timersCleared

NoEffects ==
    UNCHANGED <<loading, passIssued, passInFlight, tickCount, pollInFlight,
                pollResult, interval, timersCreated, timersCleared>>

----------------------------------------------------------------------------
(* Steps *)

MountSupportedPollsEarly ==
    /\ mounted /\ geo = "idle"
    /\ geo' = "pending"
    /\ lastEvent' = "mount"
    /\ lastData' = Null
    /\ IssuePoll
    /\ UNCHANGED <<loading, passIssued, passInFlight, interval,
                   timersCreated, timersCleared>>
    /\ UNCHANGED <<userLocation, satelliteLocation, passes, error, mounted,
                   refreshCount>>

\* Mount effect, navigator.geolocation present: getCurrentPosition is called
MountSupported ==
    /\ mounted /\ geo = "idle"
    /\ geo' = "pending"
    /\ lastEvent' = "mount"
    /\ lastData' = Null
    /\ NoEffects
    /\ UNCHANGED <<userLocation, satelliteLocation, passes, error, mounted,
                   refreshCount>>

\* Mount effect, navigator.geolocation absent: setError, fallback location
MountUnsupported ==
    /\ mounted /\ geo = "idle"
    /\ geo' = "done"
    /\ error' = ErrUnsupported
    /\ userLocation' = FallbackLocation
    /\ LocationEffects(FallbackLocation)
    /\ lastEvent' = "unsupported"
    /\ lastData' = Null
    /\ UNCHANGED <<satelliteLocation, passes, mounted, refreshCount>>

\* Success callback of getCurrentPosition
GeoSuccess(coords) ==
    /\ geo = "pending"
    /\ geo' = "done"
    /\ userLocation' = ToUserLocation(coords)
    /\ IF mounted THEN LocationEffects(ToUserLocation(coords)) ELSE NoEffects
    /\ lastEvent' = "geoSuccess"
    /\ lastData' = Null
    /\ UNCHANGED <<satelliteLocation, passes, error, mounted, refreshCount>>

GeoErrorStaysPending ==
    /\ geo = "pending"
    /\ geo' = "pending"
    /\ error' = ErrGeo
    /\ userLocation' = FallbackLocation
    /\ IF mounted THEN LocationEffects(FallbackLocation) ELSE NoEffects
    /\ lastEvent' = "geoError"
    /\ lastData' = Null
    /\ UNCHANGED <<satelliteLocation, passes, mounted, refreshCount>>

\* Error callback of getCurrentPosition
GeoError ==
    /\ geo = "pending"
    /\ geo' = "done"
    /\ error' = ErrGeo
    /\ userLocation' = FallbackLocation
    /\ IF mounted THEN LocationEffects(FallbackLocation) ELSE NoEffects
    /\ lastEvent' = "geoError"
    /\ lastData' = Null
    /\ UNCHANGED <<satelliteLocation, passes, mounted, refreshCount>>

RefreshClickAlways ==
    /\ mounted /\ userLocation # Null
    /\ refreshCount < MaxRefresh
    /\ refreshCount' = refreshCount + 1
    /\ IssuePass(userLocation)
    /\ lastEvent' = "refresh"
    /\ lastData' = Null
    /\ UNCHANGED <<userLocation, satelliteLocation, passes, error, mounted,
                   geo, interval, timersCreated, timersCleared, pollInFlight, tickCount, pollResult>>

\* onClick of the Refresh Passes button, which the loading screen hides
RefreshClick ==
    /\ mounted /\ ~LoadingScreen
    /\ refreshCount < MaxRefresh
    /\ refreshCount' = refreshCount + 1
    /\ IssuePass(userLocation)
    /\ lastEvent' = "refresh"
    /\ lastData' = Null
    /\ UNCHANGED <<userLocation, satelliteLocation, passes, error, mounted,
                   geo, interval, timersCreated, timersCleared, pollInFlight, tickCount, pollResult>>

PassOkMut(req, data) ==
    /\ req \in passInFlight
    /\ passInFlight' = passInFlight \ {req}
    /\ passes' = SelectSeq(data, LAMBDA p : p.visibility_score > 40)
    /\ loading' = FALSE
    /\ lastEvent' = "passOk"
    /\ lastData' = [req |-> req, data |-> data]
    /\ UNCHANGED <<userLocation, satelliteLocation, error, mounted, geo,
                   interval, timersCreated, timersCleared, passIssued, refreshCount, pollInFlight,
                   tickCount, pollResult>>

PassOkClearsError(req, data) ==
    /\ req \in passInFlight
    /\ passInFlight' = passInFlight \ {req}
    /\ passes' = data
    /\ loading' = FALSE
    /\ error' = Null
    /\ lastEvent' = "passOk"
    /\ lastData' = [req |-> req, data |-> data]
    /\ UNCHANGED <<userLocation, satelliteLocation, mounted, geo,
                   interval, timersCreated, timersCleared, passIssued, refreshCount, pollInFlight,
                   tickCount, pollResult>>

\* fetchPasses after the await, response received with body data
PassOk(req, data) ==
    /\ req \in passInFlight
    /\ passInFlight' = passInFlight \ {req}
    /\ passes' = data
    /\ loading' = FALSE
    /\ lastEvent' = "passOk"
    /\ lastData' = [req |-> req, data |-> data]
    /\ UNCHANGED <<userLocation, satelliteLocation, error, mounted, geo,
                   interval, timersCreated, timersCleared, passIssued, refreshCount, pollInFlight,
                   tickCount, pollResult>>

PassFailClearsPasses(req) ==
    /\ req \in passInFlight
    /\ passInFlight' = passInFlight \ {req}
    /\ error' = ErrPasses
    /\ passes' = <<>>
    /\ loading' = FALSE
    /\ lastEvent' = "passFail"
    /\ lastData' = [req |-> req]
    /\ UNCHANGED <<userLocation, satelliteLocation, mounted, geo,
                   interval, timersCreated, timersCleared, passIssued, refreshCount, pollInFlight,
                   tickCount, pollResult>>

PassFailClearsPosition(req) ==
    /\ req \in passInFlight
    /\ passInFlight' = passInFlight \ {req}
    /\ error' = ErrPasses
    /\ satelliteLocation' = Null
    /\ loading' = FALSE
    /\ lastEvent' = "passFail"
    /\ lastData' = [req |-> req]
    /\ UNCHANGED <<userLocation, passes, mounted, geo,
                   interval, timersCreated, timersCleared, passIssued, refreshCount, pollInFlight,
                   tickCount, pollResult>>

PassFailRetries(req) ==
    /\ req \in passInFlight
    /\ passInFlight' = (passInFlight \ {req}) \cup
          { [id |-> passIssued + 1, params |-> req.params,
             passesAtIssue |-> passes] }
    /\ passIssued' = passIssued + 1
    /\ error' = ErrPasses
    /\ loading' = TRUE
    /\ lastEvent' = "passFail"
    /\ lastData' = [req |-> req]
    /\ UNCHANGED <<userLocation, satelliteLocation, passes, mounted, geo,
                   interval, timersCreated, timersCleared, refreshCount, pollInFlight,
                   tickCount, pollResult>>

\* fetchPasses, catch branch
PassFail(req) ==
    /\ req \in passInFlight
    /\ passInFlight' = passInFlight \ {req}
    /\ error' = ErrPasses
    /\ loading' = FALSE
    /\ lastEvent' = "passFail"
    /\ lastData' = [req |-> req]
    /\ UNCHANGED <<userLocation, satelliteLocation, passes, mounted, geo,
                   interval, timersCreated, timersCleared, passIssued, refreshCount, pollInFlight,
                   tickCount, pollResult>>

TickSetsLoading ==
    /\ interval = "active"
    /\ tickCount < MaxTicks
    /\ IssuePoll
    /\ loading' = TRUE
    /\ lastEvent' = "tick"
    /\ lastData' = Null
    /\ UNCHANGED <<userLocation, satelliteLocation, passes, error,
                   mounted, geo, interval, timersCreated, timersCleared, passInFlight, passIssued,
                   refreshCount>>

TickRecreatesInterval ==
    /\ interval = "active"
    /\ tickCount < MaxTicks
    /\ IssuePoll
    /\ timersCreated' = timersCreated + 1
    /\ lastEvent' = "tick"
    /\ lastData' = Null
    /\ UNCHANGED <<userLocation, satelliteLocation, passes, loading, error,
                   mounted, geo, interval, timersCleared, passInFlight, passIssued,
                   refreshCount>>

\* The interval fires: fetchSatelliteLocation is called
Tick ==
    /\ interval = "active"
    /\ tickCount < MaxTicks
    /\ IssuePoll
    /\ lastEvent' = "tick"
    /\ lastData' = Null
    /\ UNCHANGED <<userLocation, satelliteLocation, passes, loading, error,
                   mounted, geo, interval, timersCreated, timersCleared, passInFlight, passIssued,
                   refreshCount>>

PollOkClearsError(i) ==
    /\ i \in pollInFlight
    /\ pollInFlight' = pollInFlight \ {i}
    /\ pollResult' = [pollResult EXCEPT ![i] = "ok"]
    /\ satelliteLocation' = ToSatelliteLocation(ServerPosition(i))
    /\ error' = Null
    /\ lastEvent' = "pollOk"
    /\ lastData' = [tick |-> i, position |-> ServerPosition(i)]
    /\ UNCHANGED <<userLocation, passes, loading, mounted, geo,
                   interval, timersCreated, timersCleared, passInFlight, passIssued, refreshCount, tickCount>>

\* fetchSatelliteLocation after the await, response of tick i received
PollOk(i) ==
    /\ i \in pollInFlight
    /\ pollInFlight' = pollInFlight \ {i}
    /\ pollResult' = [pollResult EXCEPT ![i] = "ok"]
    /\ satelliteLocation' = ToSatelliteLocation(ServerPosition(i))
    /\ lastEvent' = "pollOk"
    /\ lastData' = [tick |-> i, position |-> ServerPosition(i)]
    /\ UNCHANGED <<userLocation, passes, loading, error, mounted, geo,
                   interval, timersCreated, timersCleared, passInFlight, passIssued, refreshCount, tickCount>>

PollFailClearsPosition(i) ==
    /\ i \in pollInFlight
    /\ pollInFlight' = pollInFlight \ {i}
    /\ pollResult' = [pollResult EXCEPT ![i] = "fail"]
    /\ satelliteLocation' = Null
    /\ lastEvent' = "pollFail"
    /\ lastData' = [tick |-> i]
    /\ UNCHANGED <<userLocation, passes, loading, error,
                   mounted, geo, interval, timersCreated, timersCleared, passInFlight, passIssued,
                   refreshCount, tickCount>>

PollFailStopsPoller(i) ==
    /\ i \in pollInFlight
    /\ pollInFlight' = pollInFlight \ {i}
    /\ pollResult' = [pollResult EXCEPT ![i] = "fail"]
    /\ interval' = IF interval = "active" THEN "cleared" ELSE interval
    /\ timersCleared' = IF interval = "active" THEN timersCleared + 1
                                               ELSE timersCleared
    /\ lastEvent' = "pollFail"
    /\ lastData' = [tick |-> i]
    /\ UNCHANGED <<userLocation, satelliteLocation, passes, loading, error,
                   mounted, geo, timersCreated, passInFlight, passIssued,
                   refreshCount, tickCount>>

\* fetchSatelliteLocation, catch branch: console.error only
PollFail(i) ==
    /\ i \in pollInFlight
    /\ pollInFlight' = pollInFlight \ {i}
    /\ pollResult' = [pollResult EXCEPT ![i] = "fail"]
    /\ lastEvent' = "pollFail"
    /\ lastData' = [tick |-> i]
    /\ UNCHANGED <<userLocation, satelliteLocation, passes, loading, error,
                   mounted, geo, interval, timersCreated, timersCleared, passInFlight, passIssued,
                   refreshCount, tickCount>>

UnmountKeepsInterval ==
    /\ mounted /\ geo # "idle"
    /\ mounted' = FALSE
    /\ UNCHANGED <<interval, timersCleared>>
    /\ lastEvent' = "unmount"
    /\ lastData' = Null
    /\ UNCHANGED <<timersCreated, userLocation, satelliteLocation, passes, loading, error,
                   geo, passInFlight, passIssued, refreshCount, pollInFlight,
                   tickCount, pollResult>>

\* The component unmounts: the poller effect's cleanup runs clearInterval
Unmount ==
    /\ mounted /\ geo # "idle"
    /\ mounted' = FALSE
    /\ interval' = IF interval = "active" THEN "cleared" ELSE interval
    /\ timersCleared' = IF interval = "active" THEN timersCleared + 1
                                               ELSE timersCleared
    /\ lastEvent' = "unmount"
    /\ lastData' = Null
    /\ UNCHANGED <<timersCreated, userLocation, satelliteLocation, passes, loading, error,
                   geo, passInFlight, passIssued, refreshCount, pollInFlight,
                   tickCount, pollResult>>

Next ==
    \/ MountSupported
    \/ MountUnsupported
    \/ \E coords \in ReportedCoords : GeoSuccess(coords)
    \/ GeoError
    \/ RefreshClick
    \/ \E req \in passInFlight : \E data \in PassLists : PassOk(req, data)
    \/ \E req \in passInFlight : PassFail(req)
    \/ Tick
    \/ \E i \in pollInFlight : PollOk(i)
    \/ \E i \in pollInFlight : PollFail(i)
    \/ Unmount

Spec == Init /\ [][Next]_vars

\* The interval timer keeps firing while it is not cleared
FairSpec == Spec /\ WF_vars(Tick)

----------------------------------------------------------------------------
(* The Duration cell of the pass panel, for passes of 600 seconds *)

\* Start times T0, up to the last millisecond before a minute, hour and day
StartTimes ==
    { Iso(d, h, mi, sec, ms) : d \in 0..MaxDay, h \in {0, 12, 23},
                               mi \in {0, 30, 55, 59}, sec \in {0, 59},
                               ms \in {0, 500, 999} }

\* The pass {start_time: T0, end_time: T0 + 600 s} as the backend writes it
TenMinutePass(t0) ==
    [start_time |-> t0,
     max_time |-> FormatDate(ParseDate(t0) + 300 * MsPerSecond),
     end_time |-> FormatDate(ParseDate(t0) + 600 * MsPerSecond),
     visibility_score |-> 80]

\* The main page is shown with a one-element pass list: the state after
\* MountUnsupported and a successful first pass fetch
InitDuration ==
    /\ \E t0 \in StartTimes : passes = <<TenMinutePass(t0)>>
    /\ userLocation = FallbackLocation
    /\ satelliteLocation = Null
    /\ loading = FALSE
    /\ error = ErrUnsupported
    /\ mounted = TRUE
    /\ geo = "done"
    /\ interval = "active"
    /\ timersCreated = 1
    /\ timersCleared = 0
    /\ passInFlight = {}
    /\ passIssued = 1
    /\ refreshCount = 0
    /\ pollInFlight = {1}
    /\ tickCount = 1
    /\ pollResult = [i \in 1..MaxTicks |-> IF i = 1 THEN "pending" ELSE "none"]
    /\ lastEvent = "passOk"
    /\ lastData = [req |-> [id |-> 1, params |-> PassParams(FallbackLocation),
                            passesAtIssue |-> <<>>],
                   data |-> passes]

\* The render of the pass panel: one Duration text per pass
RenderPasses ==
    /\ mounted /\ ~LoadingScreen
    /\ lastEvent # "render"
    /\ lastEvent' = "render"
    /\ lastData' = [durations |->
                       [k \in DOMAIN passes |-> DurationMinutes(passes[k])]]
    /\ UNCHANGED <<userLocation, satelliteLocation, passes, loading, error,
                   mounted, geo, interval, timersCreated, timersCleared,
                   passInFlight, passIssued, refreshCount, pollInFlight,
                   tickCount, pollResult>>

NextDuration == RenderPasses

SpecDuration == InitDuration /\ [][NextDuration]_vars

----------------------------------------------------------------------------
TypeOK ==
    /\ userLocation \in {Null, FallbackLocation} \cup
                        { ToUserLocation(c) : c \in ReportedCoords }
    /\ passes \in PassLists
    /\ loading \in BOOLEAN
    /\ error \in {Null, ErrGeo, ErrUnsupported, ErrPasses}
    /\ mounted \in BOOLEAN
    /\ geo \in {"idle", "pending", "done"}
    /\ interval \in {"none", "active", "cleared"}
    /\ passIssued \in 0..(MaxRefresh + 1)
    /\ tickCount \in 0..MaxTicks
    /\ pollInFlight \subseteq 1..tickCount

----------------------------------------------------------------------------
(* Claims *)

\* Steps that call setError
ErrorEvents == {"geoError", "unsupported", "passFail"}

\* Ticks whose response was handled successfully / with a failure
OkTicks == { i \in 1..MaxTicks : pollResult[i] = "ok" }

FailedTicks == { i \in 1..MaxTicks : pollResult[i] = "fail" }

LatestOkTick == CHOOSE i \in OkTicks : \A j \in OkTicks : j <= i

\* C1 as stated: in every reachable state loading is true if and only if
\* userLocation is unresolved.
C1_LoadingIffUnresolved == loading <=> (userLocation = Null)

\* C1 amended: loading is true whenever userLocation is unresolved, and once
\* the first pass fetch has been issued loading is true exactly while a pass
\* fetch is in flight (so it is true with the location set).
C1_LoadingCoversPassFetch ==
    /\ (userLocation = Null => loading)
    /\ (passIssued > 0 => (loading <=> passInFlight # {}))

C1_Witness ==
    /\ lastEvent = "refresh"
    /\ userLocation # Null
    /\ loading
    /\ passInFlight # {}

\* C2 as stated: once loading is false it is never true again.
C2_LoadingNeverReverts == [][~loading => ~loading']_vars

\* C2 amended: userLocation, once resolved, never becomes unresolved again;
\* loading goes from false to true only in a Refresh Passes click, which
\* issues one pass fetch, and in no pass-fetch completion or poll step.
C2_LoadingRevertsOnlyOnRefresh ==
    [][ /\ (userLocation # Null => userLocation' # Null)
        /\ ((~loading /\ loading') =>
               /\ lastEvent' = "refresh"
               /\ passIssued' = passIssued + 1) ]_vars

C2_Witness ==
    /\ lastEvent = "refresh"
    /\ loading
    /\ tickCount > 1
    /\ OkTicks # {}

\* C3 as stated: after clearInterval has stopped the poller,
\* satelliteLocation is never changed, also not by a response of an
\* earlier tick that arrives after the stop.
C3_NoMutationAfterStop ==
    [][interval = "cleared" => satelliteLocation' = satelliteLocation]_vars

\* C4 as stated: when all responses have been handled, exactly one tick
\* failed and at least one succeeded, satelliteLocation is the payload of the
\* successful tick that was issued last, for every order of arrival.
C4_LatestIssuedWins ==
    (/\ pollInFlight = {}
     /\ Cardinality(FailedTicks) = 1
     /\ OkTicks # {})
    => satelliteLocation = ToSatelliteLocation(ServerPosition(LatestOkTick))

\* C5: once satelliteLocation is set it is never null again, in any step.
C5_PositionNeverReverts ==
    [][satelliteLocation # Null => satelliteLocation' # Null]_vars

C5_Witness ==
    /\ lastEvent = "pollFail"
    /\ satelliteLocation # Null
    /\ error # Null

\* C6: when a failed pass fetch has been handled, passes equals its value
\* when that fetch was issued and error is set.
C6_FailedFetchKeepsPasses ==
    lastEvent = "passFail" =>
        /\ passes = lastData.req.passesAtIssue
        /\ error # Null

C6_Witness ==
    /\ lastEvent = "passFail"
    /\ passes # <<>>
    /\ error = ErrPasses

\* C7: every step that sets error leaves satelliteLocation and passes as
\* they were.
C7_ErrorStepsKeepData ==
    [][(error' # error \/ lastEvent' \in ErrorEvents) =>
          /\ satelliteLocation' = satelliteLocation
          /\ passes' = passes]_vars

C7_Witness ==
    /\ lastEvent = "passFail"
    /\ passes # <<>>
    /\ satelliteLocation # Null

\* C8 as stated: after a geolocation failure or the unsupported branch,
\* userLocation is the fallback coordinate, the pass fetch and the poller
\* are started and loading is false.
C8_FallbackEndsLoading ==
    lastEvent \in {"geoError", "unsupported"} =>
        /\ userLocation = [lat |-> FallbackLat, lng |-> FallbackLng]
        /\ passInFlight # {}
        /\ interval = "active"
        /\ ~loading

\* C8 amended: after a geolocation failure or the unsupported branch,
\* userLocation is the fallback coordinate and error is set; if the
\* component is mounted the first pass fetch and the first poll are in
\* flight and the interval is active; loading is still true.
C8_FallbackKeepsLoading ==
    lastEvent \in {"geoError", "unsupported"} =>
        /\ userLocation = [lat |-> FallbackLat, lng |-> FallbackLng]
        /\ error \in {ErrGeo, ErrUnsupported}
        /\ loading
        /\ mounted =>
              /\ Cardinality(passInFlight) = 1
              /\ pollInFlight = {1}
              /\ interval = "active"

C8_Witness ==
    /\ lastEvent = "geoError"
    /\ mounted
    /\ userLocation = [lat |-> FallbackLat, lng |-> FallbackLng]
    /\ loading
    /\ passInFlight # {}

\* C9: when a successful pass fetch has been handled, passes is exactly the
\* sequence of the response body, and the request carried the coordinate of
\* userLocation.
C9_PassesEqualResponse ==
    lastEvent = "passOk" =>
        /\ passes = lastData.data
        /\ lastData.req.params = [lat |-> userLocation.lat,
                                  lon |-> userLocation.lng]

C9_Witness ==
    /\ lastEvent = "passOk"
    /\ Len(passes) = 2
    /\ ParseDate(passes[1].start_time) > ParseDate(passes[2].start_time)
    /\ lastData.req.passesAtIssue # <<>>
    /\ lastData.req.passesAtIssue # passes

\* C10 as stated: after unmount, the completion of a pass fetch changes
\* none of passes, error and loading.
C10_NoMutationAfterUnmount ==
    [][(~mounted /\ lastEvent' \in {"passOk", "passFail"}) =>
          /\ passes' = passes
          /\ error' = error
          /\ loading' = loading]_vars

\* C12: for a pass with end_time = start_time + 600 seconds the Duration
\* text of the pass panel is 10, for every start time T0.
C12_TenMinutePassShowsTen ==
    lastEvent = "render" =>
        \A k \in DOMAIN passes :
            ParseDate(passes[k].end_time) - ParseDate(passes[k].start_time)
                = 600 * MsPerSecond
            => lastData.durations[k] = 10

C12_Witness ==
    /\ lastEvent = "render"
    /\ Len(passes) = 1
    /\ passes[1].start_time = Iso(MaxDay, 23, 55, 59, 999)
    /\ passes[1].end_time.day = MaxDay + 1
    /\ lastData.durations[1] = 10

\* C11: in every state after unmount no interval is active, and no step
\* taken after unmount issues a position request.
C11_UnmountStopsPoller ==
    [][~mounted' =>
          /\ interval' # "active"
          /\ timersCreated' = timersCleared'
          /\ (~mounted => tickCount' = tickCount)]_vars

C11_Witness ==
    /\ ~mounted
    /\ interval = "cleared"
    /\ lastEvent = "pollOk"
    /\ tickCount < MaxTicks

\* C13: the number of live interval timers is never more than 1, and it is
\* 1 exactly while the poller is active.
C13_AtMostOneTimer ==
    /\ timersCreated - timersCleared \in {0, 1}
    /\ (interval = "active" <=> timersCreated - timersCleared = 1)

C13_Witness ==
    /\ interval = "active"
    /\ timersCreated - timersCleared = 1
    /\ tickCount > 1

\* C14: while userLocation is unresolved no pass request and no position
\* request has been issued, and every pass request in flight carries the
\* coordinate of userLocation.
C14_NoRequestBeforeLocation ==
    /\ userLocation = Null =>
          /\ passIssued = 0 /\ passInFlight = {}
          /\ tickCount = 0 /\ pollInFlight = {}
    /\ \A r \in passInFlight :
          r.params = [lat |-> userLocation.lat, lon |-> userLocation.lng]

C14_Witness ==
    /\ lastEvent = "geoSuccess"
    /\ mounted
    /\ userLocation \notin {Null, [lat |-> FallbackLat, lng |-> FallbackLng]}
    /\ passInFlight # {}
    /\ pollInFlight # {}

\* C15: no step of the poller (tick, successful response, failed response)
\* changes error, in particular not an error set by a failed pass fetch.
C15_PollKeepsError ==
    [][lastEvent' \in {"tick", "pollOk", "pollFail"} => error' = error]_vars

C15_Witness ==
    /\ lastEvent = "pollOk"
    /\ error = ErrPasses

\* C16: a failed position fetch leaves the interval as it was; when the
\* latest tick has failed, a later tick is eventually issued unless the
\* interval is cleared by unmount; a successful response sets the position
\* to its payload whatever failed before.
C16_FailedPollKeepsPolling ==
    /\ [][lastEvent' = "pollFail" =>
             /\ interval' = interval
             /\ timersCleared' = timersCleared]_vars
    /\ [][lastEvent' = "pollOk" =>
             satelliteLocation' = [lat |-> lastData'.position.lat,
                                   lng |-> lastData'.position.lon,
                                   alt |-> lastData'.position.alt,
                                   name |-> lastData'.position.name,
                                   timestamp |-> lastData'.position.timestamp]]_vars
    /\ \A i \in 1..(MaxTicks - 1) :
          (pollResult[i] = "fail" /\ tickCount = i)
              ~> (tickCount > i \/ interval = "cleared")

C16_Witness ==
    /\ lastEvent = "pollOk"
    /\ interval = "active"
    /\ \E i \in 1..MaxTicks : i < lastData.tick /\ pollResult[i] = "fail"
    /\ satelliteLocation.timestamp = PollPeriodMs * lastData.tick

\* C17: the number of pass requests issued is the number of Refresh Passes
\* clicks, plus 1 once the effects keyed on userLocation have run; no
\* failed pass fetch and no poll step adds one.
C17_PassFetchCount ==
    /\ passIssued = refreshCount + (IF interval = "none" THEN 0 ELSE 1)
    /\ userLocation = Null => passIssued = 0

C17_Witness ==
    /\ passIssued = 3
    /\ refreshCount = 2
    /\ error = ErrPasses
    /\ tickCount > 1
    /\ FailedTicks # {}

\* C18: once userLocation is set no step changes it, and the effects keyed
\* on it run at most once (one setInterval, one pass fetch not due to a
\* click).
C18_LocationResolvedOnce ==
    [][ /\ (userLocation # Null => userLocation' = userLocation)
        /\ timersCreated' <= 1
        /\ passIssued' - refreshCount' <= 1 ]_vars

C18_Witness ==
    /\ lastEvent = "passOk"
    /\ refreshCount > 0
    /\ timersCreated = 1
    /\ userLocation # Null
    /\ tickCount > 1

\* C19: once error is set no step resets it to null.
C19_ErrorSticky == [][error # Null => error' # Null]_vars

C19_Witness ==
    /\ lastEvent = "passOk"
    /\ error = ErrPasses
    /\ OkTicks # {}

\* C20: at most one pass request is in flight, and loading is true while
\* one is.
C20_OnePassFetchInFlight ==
    /\ Cardinality(passInFlight) <= 1
    /\ passInFlight # {} => loading

C20_Witness ==
    /\ lastEvent = "refresh"
    /\ refreshCount = MaxRefresh
    /\ Cardinality(passInFlight) = 1
    /\ loading

====
